---- MODULE Spec2Model ----
(***************************************************************************)
(* A model of the falling-block game of src/main.rs: the board (GameMap),  *)
(* the live piece entity (Piece + Position), the Score and Level           *)
(* resources, the GameState, and the systems main() schedules:             *)
(* spawn_initial_piece (Startup), move_piece_down (FixedUpdate, only in    *)
(* state Playing) and draw_blocks, clear_lines, update_gravity_speed       *)
(* (Update, in no declared order).                                         *)
(*                                                                         *)
(* Rows and columns are 0-based in the program; a TLA+ sequence is         *)
(* 1-based, so board cell (y, x) is game_map[y + 1][x + 1].                *)
(* Durations are in hundredths of a second.                                *)
(***************************************************************************)
EXTENDS Integers, Sequences, FiniteSets, TLC

VARIABLES
    game_map,         \* GameMap.0: the rows, top to bottom, each a row of cells
    pieces,           \* the entities that carry (Piece, Position)
    score,            \* Score.value (u32; far below 2^32 within the bounds)
    level,            \* Level: [value, lines_cleared_in_level] (u32 each, likewise)
    state,            \* State<GameState>
    next_state,       \* NextState<GameState>: "None" or the state asked for
    wrap_period,      \* the period update_gravity_speed last set on Time<Fixed>
    timestep,         \* Time<Fixed>'s timestep, the period of FixedUpdate (microseconds)
    level_changed,    \* Level changed since update_gravity_speed last ran
    drawn_full_rows,  \* full rows in the board draw_blocks last read
    lines_cleared,    \* clear_lines' local count at the end of its last run
    landings,         \* pieces committed since Init (bounds the model)
    pc,               \* where the schedule (or a single function's run) stands
    arg,              \* the inputs a function was run on
    result            \* what it returned

vars == <<game_map, pieces, score, level, state, next_state, wrap_period, timestep,
          level_changed, drawn_full_rows, lines_cleared, landings, pc, arg, result>>

--------------------------------------------------------------------------
(* Program constants *)

NUM_BLOCKS_X == 10
NUM_BLOCKS_Y == 20

(* Bounds of the model *)

MaxLandings == 2   \* landings a run of the game model follows
MaxStack == 4      \* I pieces already landed when a mid-game run starts
MaxWell == 2       \* rows of a non-empty starting board that lack only columns 5 and 6
MaxRow == 8        \* clear_lines inputs: the full rows lie among rows 0..MaxRow-1
MaxShift == 2      \* can_move inputs: how far the 4x4 frame may hang over an edge
MaxLevel == 32     \* update_gravity_speed inputs: levels 0..MaxLevel

--------------------------------------------------------------------------
(* Shape table: impl From<PieceType> for Piece *)

PieceTypes == {"L", "J", "S", "Z", "T", "I", "O"}

GameColor == {"Red", "Green", "Blue", "Yellow", "Cyan", "Orange", "Purple", "Gray", "Pink"}

\* the shape table with one bit too many in the fourth orientation of L
PieceFromExtraBit(piece_type) ==
    CASE piece_type = "L" -> [states |-> <<17504, 1856, 1570, 737>>, color |-> "Orange", current_state |-> 0]
      [] piece_type = "J" -> [states |-> <<8800, 1136, 1604, 3616>>, color |-> "Blue", current_state |-> 0]
      [] piece_type = "S" -> [states |-> <<17952, 1728, 17952, 1728>>, color |-> "Green", current_state |-> 0]
      [] piece_type = "Z" -> [states |-> <<9792, 3168, 9792, 3168>>, color |-> "Red", current_state |-> 0]
      [] piece_type = "T" -> [states |-> <<17984, 3648, 19520, 19968>>, color |-> "Purple", current_state |-> 0]
      [] piece_type = "I" -> [states |-> <<17476, 3840, 17476, 3840>>, color |-> "Cyan", current_state |-> 0]
      [] piece_type = "O" -> [states |-> <<1632, 1632, 1632, 1632>>, color |-> "Yellow", current_state |-> 0]

PieceFrom(piece_type) ==
    CASE piece_type = "L" -> [states |-> <<17504, 1856, 1570, 736>>, color |-> "Orange", current_state |-> 0]
      [] piece_type = "J" -> [states |-> <<8800, 1136, 1604, 3616>>, color |-> "Blue", current_state |-> 0]
      [] piece_type = "S" -> [states |-> <<17952, 1728, 17952, 1728>>, color |-> "Green", current_state |-> 0]
      [] piece_type = "Z" -> [states |-> <<9792, 3168, 9792, 3168>>, color |-> "Red", current_state |-> 0]
      [] piece_type = "T" -> [states |-> <<17984, 3648, 19520, 19968>>, color |-> "Purple", current_state |-> 0]
      [] piece_type = "I" -> [states |-> <<17476, 3840, 17476, 3840>>, color |-> "Cyan", current_state |-> 0]
      [] piece_type = "O" -> [states |-> <<1632, 1632, 1632, 1632>>, color |-> "Yellow", current_state |-> 0]

\* Piece::random(): gen_range(0..7) picks one of the seven types
RandomPieces == {PieceFrom(t) : t \in PieceTypes}

\* piece.states[piece.current_state]
CurrentMask(piece) == piece.states[piece.current_state + 1]

--------------------------------------------------------------------------
(* get_block_matrix: bit (15 - i) of num fills cell (i / 4, i % 4), always *)
(* as Presence::Yes(GameColor::Red)                                        *)

BlockColor == "Red"

get_block_matrix(num) ==
    [my \in 0..3 |-> [mx \in 0..3 |->
        IF (num \div 2^(15 - (4 * my + mx))) % 2 = 1 THEN BlockColor ELSE "No"]]

--------------------------------------------------------------------------
(* Board helpers *)

EmptyRow == [x \in 1..NUM_BLOCKS_X |-> "No"]
EmptyMap == [y \in 1..NUM_BLOCKS_Y |-> EmptyRow]

CellAt(map, y, x) == map[y + 1][x + 1]

--------------------------------------------------------------------------
(* can_move *)

\* can_move with the left bound of the board test off by one
can_move_left_off(piece, current_pos, new_y, map) ==
    LET piece_matrix == get_block_matrix(CurrentMask(piece))
    IN \A my \in 0..3 : \A mx \in 0..3 :
         piece_matrix[my][mx] # "No" =>
           LET block_x == current_pos.x + mx
               block_y == new_y + my
           IN IF block_y >= NUM_BLOCKS_Y THEN FALSE
              ELSE IF block_x > 0 /\ block_x < NUM_BLOCKS_X /\ block_y >= 0
                   THEN map[block_y + 1][block_x + 1] = "No"
                   ELSE TRUE

\* can_move with the floor test off by one: the bottom row counts as below the board
can_move_floor_early(piece, current_pos, new_y, map) ==
    LET piece_matrix == get_block_matrix(CurrentMask(piece))
    IN \A my \in 0..3 : \A mx \in 0..3 :
         piece_matrix[my][mx] # "No" =>
           LET block_x == current_pos.x + mx
               block_y == new_y + my
           IN IF block_y >= NUM_BLOCKS_Y - 1 THEN FALSE
              ELSE IF block_x >= 0 /\ block_x < NUM_BLOCKS_X /\ block_y >= 0
                   THEN CellAt(map, block_y, block_x) = "No"
                   ELSE TRUE

can_move(piece, current_pos, new_y, map) ==
    LET piece_matrix == get_block_matrix(CurrentMask(piece))
    IN \A my \in 0..3 : \A mx \in 0..3 :
         piece_matrix[my][mx] # "No" =>
           LET block_x == current_pos.x + mx
               block_y == new_y + my
           IN IF block_y >= NUM_BLOCKS_Y THEN FALSE
              ELSE IF block_x >= 0 /\ block_x < NUM_BLOCKS_X /\ block_y >= 0
                   THEN CellAt(map, block_y, block_x) = "No"
                   ELSE TRUE

--------------------------------------------------------------------------
(* spawn_initial_piece (Startup). The frame that follows Startup has no   *)
(* elapsed time, so its fixed-timestep loop runs no tick: the first pass   *)
(* of StateTransition and Update comes before the first move_piece_down.   *)

\* the spawn anchor without the "- 1"
SpawnPositionCentre == [x |-> NUM_BLOCKS_X \div 2, y |-> 0]

SpawnPosition == [x |-> NUM_BLOCKS_X \div 2 - 1, y |-> 0]

spawn_initial_piece ==
    /\ pc = "startup"
    /\ \E new_piece \in RandomPieces :
         IF can_move(new_piece, SpawnPosition, SpawnPosition.y, game_map)
         THEN /\ pieces' = Append(pieces, [piece |-> new_piece, position |-> SpawnPosition])
              /\ next_state' = next_state
         ELSE /\ pieces' = pieces
              /\ next_state' = "GameOver"
    /\ pc' = "first_frame"
    /\ UNCHANGED <<game_map, score, level, state, wrap_period, timestep, level_changed,
                   drawn_full_rows, lines_cleared, landings, arg, result>>

--------------------------------------------------------------------------
(* move_piece_down (FixedUpdate, run_if in_state(Playing)) *)

\* the board after the filled cells of the piece are written into it
Finalize(map, piece, position) ==
    LET piece_matrix == get_block_matrix(CurrentMask(piece))
    IN [r \in 1..Len(map) |-> [c \in 1..Len(map[r]) |->
          LET my == (r - 1) - position.y
              mx == (c - 1) - position.x
          IN IF /\ my \in 0..3 /\ mx \in 0..3
                /\ piece_matrix[my][mx] # "No"
                /\ c - 1 >= 0 /\ c - 1 < NUM_BLOCKS_X
                /\ r - 1 >= 0 /\ r - 1 < NUM_BLOCKS_Y
             THEN piece_matrix[my][mx]
             ELSE map[r][c]]]

\* a landing tick that spawns the next piece without despawning the landed one
move_piece_down_no_despawn ==
    /\ pc = "running"
    /\ state = "Playing"
    /\ landings < MaxLandings
    /\ IF Len(pieces) = 1
       THEN LET piece == pieces[1].piece
                position == pieces[1].position
                new_y == position.y + 1
            IN IF can_move(piece, position, new_y, game_map)
               THEN /\ pieces' = <<[piece |-> piece, position |-> [x |-> position.x, y |-> new_y]]>>
                    /\ UNCHANGED <<game_map, landings>>
               ELSE /\ game_map' = Finalize(game_map, piece, position)
                    /\ \E new_piece \in RandomPieces :
                         pieces' = Append(pieces, [piece |-> new_piece, position |-> SpawnPosition])
                    /\ landings' = landings + 1
       ELSE UNCHANGED <<game_map, pieces, landings>>
    /\ UNCHANGED <<score, level, state, next_state, wrap_period, timestep, level_changed,
                   drawn_full_rows, lines_cleared, pc, arg, result>>

move_piece_down ==
    /\ pc = "running"
    /\ state = "Playing"
    /\ landings < MaxLandings
    /\ IF Len(pieces) = 1
       THEN LET piece == pieces[1].piece
                position == pieces[1].position
                new_y == position.y + 1
            IN IF can_move(piece, position, new_y, game_map)
               THEN /\ pieces' = <<[piece |-> piece, position |-> [x |-> position.x, y |-> new_y]]>>
                    /\ UNCHANGED <<game_map, landings>>
               ELSE /\ game_map' = Finalize(game_map, piece, position)
                    /\ \E new_piece \in RandomPieces :
                         pieces' = <<[piece |-> new_piece, position |-> SpawnPosition]>>
                    /\ landings' = landings + 1
       ELSE UNCHANGED <<game_map, pieces, landings>>
    /\ UNCHANGED <<score, level, state, next_state, wrap_period, timestep, level_changed,
                   drawn_full_rows, lines_cleared, pc, arg, result>>

--------------------------------------------------------------------------
(* clear_lines (Update) *)

IsFull(row) == \A x \in 1..Len(row) : row[x] # "No"

\* rows_to_clear: the 0-based indices of the full rows, ascending
RowsToClear(map) ==
    SelectSeq([i \in 1..Len(map) |-> i - 1], LAMBDA y : IsFull(map[y + 1]))

\* Vec::remove(index)
RemoveRow(map, index) == SubSeq(map, 1, index) \o SubSeq(map, index + 2, Len(map))

\* a clear that forgets to insert the empty row
InsertTopDropped(map, row) == map

\* Vec::insert(0, row)
InsertTop(map, row) == <<row>> \o map

\* the loop over rows_to_clear.iter().rev(): entries k, k-1, .., 1
RECURSIVE ClearRows(_, _, _)
ClearRows(map, rows, k) ==
    IF k = 0 THEN map
    ELSE ClearRows(InsertTop(RemoveRow(map, rows[k]), EmptyRow), rows, k - 1)

\* a level-up that carries the excess lines over instead of discarding them
AdvanceLevelCarry(lvl, n) ==
    LET carried == lvl.lines_cleared_in_level + n
    IN IF carried >= 10
       THEN [value |-> lvl.value + 1, lines_cleared_in_level |-> carried - 10]
       ELSE [value |-> lvl.value, lines_cleared_in_level |-> carried]

\* a level-up that advances the level by the number of lines just cleared
AdvanceLevelByLines(lvl, n) ==
    LET carried == lvl.lines_cleared_in_level + n
    IN IF carried >= 10
       THEN [value |-> lvl.value + n, lines_cleared_in_level |-> 0]
       ELSE [value |-> lvl.value, lines_cleared_in_level |-> carried]

\* a level-up that waits for more than 10 carried lines
AdvanceLevelStrict(lvl, n) ==
    LET carried == lvl.lines_cleared_in_level + n
    IN IF carried > 10
       THEN [value |-> lvl.value + 1, lines_cleared_in_level |-> 0]
       ELSE [value |-> lvl.value, lines_cleared_in_level |-> carried]

\* level.lines_cleared_in_level += n; at 10 or more the level advances
AdvanceLevel(lvl, n) ==
    LET carried == lvl.lines_cleared_in_level + n
    IN IF carried >= 10
       THEN [value |-> lvl.value + 1, lines_cleared_in_level |-> 0]
       ELSE [value |-> lvl.value, lines_cleared_in_level |-> carried]

\* the world w is the record of the resources the Update systems share
clear_lines(w) ==
    LET rows_to_clear == RowsToClear(w.game_map)
        n == Len(rows_to_clear)
    IN IF n > 0
       THEN [w EXCEPT
               !.game_map = ClearRows(w.game_map, rows_to_clear, n),
               !.lines_cleared = n,
               !.score = w.score + n * 100,
               !.level = AdvanceLevel(w.level, n),
               !.level_changed = TRUE]
       ELSE [w EXCEPT !.lines_cleared = 0]

--------------------------------------------------------------------------
(* draw_blocks (Update): reads the board and the live piece *)

FullRowCount(map) == Cardinality({y \in 1..Len(map) : IsFull(map[y])})

draw_blocks(w) == [w EXCEPT !.drawn_full_rows = FullRowCount(w.game_map)]

--------------------------------------------------------------------------
(* update_gravity_speed (Update) *)

MaxOf(a, b) == IF a >= b THEN a ELSE b

\* the period without its floor
GravityPeriodNoFloor(level_value) == 100 - level_value * 5

\* new_speed = 1.0 - level * 0.05; new_speed.max(0.1)
GravityPeriod(level_value) ==
    LET new_speed == 100 - level_value * 5
    IN MaxOf(new_speed, 10)

update_gravity_speed(w) ==
    IF w.level_changed
    THEN [w EXCEPT !.wrap_period = GravityPeriod(w.level.value), !.level_changed = FALSE]
    ELSE w

--------------------------------------------------------------------------
(* handle_input (Update): each key press is only printed; the live piece   *)
(* is not among its parameters                                             *)

\* an ArrowLeft press that moves the live piece one column to the left
handle_input_left(entities) ==
    [i \in 1..Len(entities) |->
        [entities[i] EXCEPT !.position.x = entities[i].position.x - 1]]

handle_input(entities) == entities

--------------------------------------------------------------------------
(* One pass of the Main schedule outside the fixed-timestep loop:         *)
(* StateTransition applies a pending NextState, and Update runs its        *)
(* systems one at a time in an order the executor chooses (handle_input    *)
(* shares no data with the others, so its place in the order is immaterial).*)

UpdateSystems == {"draw_blocks", "clear_lines", "update_gravity_speed"}

Orders == {o \in [1..3 -> UpdateSystems] : \A i, j \in 1..3 : i # j => o[i] # o[j]}

RunSystem(name, w) ==
    CASE name = "draw_blocks" -> draw_blocks(w)
      [] name = "clear_lines" -> clear_lines(w)
      [] name = "update_gravity_speed" -> update_gravity_speed(w)

World ==
    [game_map |-> game_map, score |-> score, level |-> level,
     wrap_period |-> wrap_period, level_changed |-> level_changed,
     drawn_full_rows |-> drawn_full_rows, lines_cleared |-> lines_cleared]

SetWorld(w) ==
    /\ game_map' = w.game_map
    /\ score' = w.score
    /\ level' = w.level
    /\ wrap_period' = w.wrap_period
    /\ level_changed' = w.level_changed
    /\ drawn_full_rows' = w.drawn_full_rows
    /\ lines_cleared' = w.lines_cleared

\* a transition that falls back to the default state when none is pending
apply_state_transition_default(current, next) == IF next # "None" THEN next ELSE "Playing"

apply_state_transition(current, next) == IF next # "None" THEN next ELSE current

Frame ==
    /\ pc \in {"first_frame", "running"}
    /\ state' = apply_state_transition(state, next_state)
    /\ next_state' = "None"
    /\ \E order \in Orders :
         SetWorld(RunSystem(order[3], RunSystem(order[2], RunSystem(order[1], World))))
    /\ pieces' = handle_input(pieces)
    /\ pc' = "running"
    /\ UNCHANGED <<timestep, landings, arg, result>>

--------------------------------------------------------------------------
(* The program: main() *)

InitResources ==
    /\ pieces = <<>>
    /\ score = 0
    /\ level = [value |-> 0, lines_cleared_in_level |-> 0]
    /\ state = "Playing"
    /\ next_state = "None"
    /\ wrap_period = 360000   \* the engine's default wrap period, one hour
    /\ timestep = 15625       \* the engine's default timestep, 64 Hz
    /\ level_changed = TRUE
    /\ drawn_full_rows = 0
    /\ lines_cleared = 0
    /\ landings = 0
    /\ arg = "none"
    /\ result = "none"

Init ==
    /\ game_map = EmptyMap
    /\ InitResources
    /\ pc = "startup"

Next ==
    \/ spawn_initial_piece
    \/ move_piece_down
    \/ Frame

Spec == Init /\ [][Next]_vars

--------------------------------------------------------------------------
(* The game in mid-play: the states after k I pieces have landed on the   *)
(* empty board and the next piece has been spawned, a frame having run.   *)

RECURSIVE RestY(_, _, _, _)
\* where repeated move_piece_down ticks bring a piece to rest
RestY(map, piece, x, y) ==
    IF can_move(piece, [x |-> x, y |-> y], y + 1, map)
    THEN RestY(map, piece, x, y + 1)
    ELSE y

Landed(map, piece) ==
    Finalize(map, piece,
             [x |-> SpawnPosition.x, y |-> RestY(map, piece, SpawnPosition.x, SpawnPosition.y)])

RECURSIVE StackMap(_)
StackMap(k) == IF k = 0 THEN EmptyMap ELSE Landed(StackMap(k - 1), PieceFrom("I"))

InitStack ==
    /\ \E k \in 0..MaxStack : game_map = StackMap(k)
    /\ \E new_piece \in RandomPieces :
         pieces = <<[piece |-> new_piece, position |-> SpawnPosition]>>
    /\ score = 0
    /\ level = [value |-> 0, lines_cleared_in_level |-> 0]
    /\ state = "Playing"
    /\ next_state = "None"
    /\ wrap_period = GravityPeriod(0)
    /\ timestep = 15625
    /\ level_changed = FALSE
    /\ drawn_full_rows = 0
    /\ lines_cleared = 0
    /\ landings = 0
    /\ arg = "none"
    /\ result = "none"
    /\ pc = "running"

\* Startup is over: the fixed-timestep loop and the frames remain
NextRunning ==
    \/ move_piece_down
    \/ Frame

SpecStack == InitStack /\ [][NextRunning]_vars

--------------------------------------------------------------------------
(* The program started on a GameMap that is not empty: a well (the bottom *)
(* rows occupied except in columns 5 and 6, where the pieces fall) or a   *)
(* stack of I pieces that reaches the top.                                 *)

WellRow == [x \in 1..NUM_BLOCKS_X |-> IF x - 1 \in {5, 6} THEN "No" ELSE "Gray"]

WellMap(h) == [y \in 1..NUM_BLOCKS_Y |-> IF y - 1 >= NUM_BLOCKS_Y - h THEN WellRow ELSE EmptyRow]

\* I pieces stacked up to the top row: no piece can be spawned on it
FullStack == StackMap(NUM_BLOCKS_Y \div 4)

StartMaps == {WellMap(h) : h \in 0..MaxWell} \cup {FullStack}

InitPlay ==
    /\ game_map \in StartMaps
    /\ InitResources
    /\ pc = "startup"

SpecPlay == InitPlay /\ [][Next]_vars

--------------------------------------------------------------------------
(* clear_lines as a function of the board and the counters: any set of    *)
(* rows among the first MaxRow is full, every other row carries a pattern *)
(* of its own, and the carried count is any value below the threshold.    *)

FullRow == [x \in 1..NUM_BLOCKS_X |-> "Green"]

PatternRow(y) ==
    [x \in 1..NUM_BLOCKS_X |-> IF ((y + 1) \div 2^(x - 1)) % 2 = 1 THEN "Blue" ELSE "No"]

LineMap(F) == [y \in 1..NUM_BLOCKS_Y |-> IF y - 1 \in F THEN FullRow ELSE PatternRow(y - 1)]

InitLines ==
    /\ \E F \in SUBSET (0..MaxRow - 1) : game_map = LineMap(F)
    /\ pieces = <<>>
    /\ score = 0
    /\ \E carried \in 0..9 : level = [value |-> 0, lines_cleared_in_level |-> carried]
    /\ state = "Playing"
    /\ next_state = "None"
    /\ wrap_period = GravityPeriod(0)
    /\ timestep = 15625
    /\ level_changed = FALSE
    /\ drawn_full_rows = 0
    /\ lines_cleared = 0
    /\ landings = 0
    /\ arg = "none"
    /\ result = "none"
    /\ pc = "lines_input"

\* one run of clear_lines; arg keeps the resources it was given
ClearLinesCall ==
    /\ pc \in {"lines_input", "lines_done"}
    /\ arg' = World
    /\ SetWorld(clear_lines(World))
    /\ pc' = "lines_done"
    /\ UNCHANGED <<pieces, state, next_state, timestep, landings, result>>

SpecLines == InitLines /\ [][ClearLinesCall]_vars

--------------------------------------------------------------------------
(* can_move as a function: every piece in every rotation, at positions    *)
(* whose frame hangs over the edges by up to MaxShift, on the empty board *)
(* and on boards with one occupied cell under the frame.                  *)

AllPieces == {[PieceFrom(t) EXCEPT !.current_state = r] : t \in PieceTypes, r \in 0..3}

InBoard(y, x) == x >= 0 /\ x < NUM_BLOCKS_X /\ y >= 0 /\ y < NUM_BLOCKS_Y

OneCellMap(y, x) ==
    [r \in 1..NUM_BLOCKS_Y |-> [c \in 1..NUM_BLOCKS_X |->
        IF r - 1 = y /\ c - 1 = x THEN "Pink" ELSE "No"]]

InitMove ==
    /\ \E piece \in AllPieces :
       \E x \in (0 - MaxShift)..(NUM_BLOCKS_X - 4 + MaxShift) :
       \E new_y \in (0 - MaxShift)..(NUM_BLOCKS_Y - 4 + MaxShift) :
         /\ arg = [piece |-> piece, current_pos |-> [x |-> x, y |-> new_y - 1], new_y |-> new_y]
         /\ \/ game_map = EmptyMap
            \/ \E my \in 0..3 : \E mx \in 0..3 :
                 /\ InBoard(new_y + my, x + mx)
                 /\ game_map = OneCellMap(new_y + my, x + mx)
    /\ pieces = <<>>
    /\ score = 0
    /\ level = [value |-> 0, lines_cleared_in_level |-> 0]
    /\ state = "Playing"
    /\ next_state = "None"
    /\ wrap_period = GravityPeriod(0)
    /\ timestep = 15625
    /\ level_changed = FALSE
    /\ drawn_full_rows = 0
    /\ lines_cleared = 0
    /\ landings = 0
    /\ result = "none"
    /\ pc = "move_input"

CanMoveCall ==
    /\ pc = "move_input"
    /\ result' = can_move(arg.piece, arg.current_pos, arg.new_y, game_map)
    /\ pc' = "move_done"
    /\ UNCHANGED <<game_map, pieces, score, level, state, next_state, wrap_period,
                   timestep, level_changed, drawn_full_rows, lines_cleared, landings, arg>>

SpecMove == InitMove /\ [][CanMoveCall]_vars

--------------------------------------------------------------------------
(* update_gravity_speed as a function of the level *)

InitGravity ==
    /\ game_map = EmptyMap
    /\ pieces = <<>>
    /\ score = 0
    /\ \E v \in 0..MaxLevel : \E carried \in 0..9 :
         level = [value |-> v, lines_cleared_in_level |-> carried]
    /\ state = "Playing"
    /\ next_state = "None"
    /\ wrap_period = 360000   \* the engine's default wrap period, one hour
    /\ timestep = 15625       \* the engine's default timestep, 64 Hz
    /\ level_changed \in BOOLEAN
    /\ drawn_full_rows = 0
    /\ lines_cleared = 0
    /\ landings = 0
    /\ arg = "none"
    /\ result = "none"
    /\ pc = "gravity_input"

GravityCall ==
    /\ pc = "gravity_input"
    /\ arg' = World
    /\ SetWorld(update_gravity_speed(World))
    /\ pc' = "gravity_done"
    /\ UNCHANGED <<pieces, state, next_state, timestep, landings, result>>

SpecGravity == InitGravity /\ [][GravityCall]_vars

--------------------------------------------------------------------------
(* Properties *)

\* the filled cells <<row, column>> of a mask within its 4x4 frame:
\* bit (15 - i) stands for row i / 4, column i % 4
MaskCells(num) == {<<i \div 4, i % 4>> : i \in {j \in 0..15 : (num \div 2^(15 - j)) % 2 = 1}}

\* the board cells <<y, x>> a piece covers at a position (in the board or not)
Footprint(piece, x, y) == {<<y + c[1], x + c[2]>> : c \in MaskCells(CurrentMask(piece))}

Cells == (0..NUM_BLOCKS_Y - 1) \X (0..NUM_BLOCKS_X - 1)

Occupied(map) == {c \in Cells : map[c[1] + 1][c[2] + 1] # "No"}

\* a gravity tick that lands the live piece
Lands == pc = "running" /\ landings' = landings + 1

\* C1: every live piece at the spawn anchor passed can_move there against the
\* current board (a spawn that collides makes no live piece).
C1_SpawnTested ==
    \A i \in 1..Len(pieces) :
        pieces[i].position = [x |-> 4, y |-> 0] =>
            Footprint(pieces[i].piece, 4, 0) \cap Occupied(game_map) = {}

\* the rows of a board that are not full, in order, below as many empty rows
\* as it has full rows
C2_Expected(map) ==
    LET kept == SelectSeq(map, LAMBDA row : \E x \in 1..NUM_BLOCKS_X : row[x] = "No")
    IN [i \in 1..(Len(map) - Len(kept)) |-> [x \in 1..NUM_BLOCKS_X |-> "No"]] \o kept

\* C2: clear_lines removes exactly the full rows, keeps the other rows in
\* order below as many empty rows, counts the full rows and leaves none.
C2_ClearLinesExact ==
    pc = "lines_done" =>
        /\ game_map = C2_Expected(arg.game_map)
        /\ lines_cleared = NUM_BLOCKS_Y - Len(SelectSeq(arg.game_map,
                               LAMBDA row : \E x \in 1..NUM_BLOCKS_X : row[x] = "No"))
        /\ \A y \in 1..NUM_BLOCKS_Y : \E x \in 1..NUM_BLOCKS_X : game_map[y][x] = "No"

\* some filled cell of the candidate is below the board or on an occupied cell
C3_Blocked ==
    \E c \in Footprint(arg.piece, arg.current_pos.x, arg.new_y) :
        \/ c[1] >= 20
        \/ c \in Occupied(game_map)

\* C3: can_move is false exactly when some filled cell of the mask lies in
\* a row >= 20 or on an occupied cell of the board.
C3_CanMoveExact == pc = "move_done" => (result = ~C3_Blocked)

C3_Witness ==
    /\ pc = "move_done"
    /\ result = FALSE
    /\ \A c \in Footprint(arg.piece, arg.current_pos.x, arg.new_y) : c[1] < 20
    /\ Footprint(arg.piece, arg.current_pos.x, arg.new_y) \cap Occupied(game_map) # {}

\* some filled cell of the candidate is beside the board, in one of its rows
C4_OverSide ==
    \E c \in Footprint(arg.piece, arg.current_pos.x, arg.new_y) :
        /\ c[2] < 0 \/ c[2] >= 10
        /\ c[1] >= 0 /\ c[1] < 20

\* C4: can_move is false when a filled cell lies left or right of the board
\* in a row of the board.
C4_SideEdgesCollide == (pc = "move_done" /\ C4_OverSide) => result = FALSE

\* C5: a landing writes the piece's own colour into the cells of its
\* footprint that lie in the board and changes no other cell.
C5_CommitColour ==
    [][Lands =>
        \A c \in Cells :
            IF c \in Footprint(pieces[1].piece, pieces[1].position.x, pieces[1].position.y)
            THEN game_map'[c[1] + 1][c[2] + 1] = pieces[1].piece.color
            ELSE game_map'[c[1] + 1][c[2] + 1] = game_map[c[1] + 1][c[2] + 1]]_vars

\* the full rows of the board clear_lines was run on
C6_FullRows == Cardinality({y \in 1..NUM_BLOCKS_Y : \A x \in 1..NUM_BLOCKS_X : arg.game_map[y][x] # "No"})

\* C6: a resolution that found n full rows adds n * 100 to the score and n
\* to the carried lines; at 10 or more the level rises by one and the
\* carried lines restart at 0; with n = 0 nothing changes.
C6_Progression ==
    pc = "lines_done" =>
        LET n == C6_FullRows
            before == arg.level.lines_cleared_in_level
        IN /\ score = arg.score + n * 100
           /\ n = 0 => level = arg.level
           /\ (n > 0 /\ before + n < 10) =>
                  /\ level.value = arg.level.value
                  /\ level.lines_cleared_in_level = before + n
           /\ (n > 0 /\ before + n >= 10) =>
                  /\ level.value = arg.level.value + 1
                  /\ level.lines_cleared_in_level = 0

C6_Witness ==
    /\ pc = "lines_done"
    /\ C6_FullRows = 4
    /\ arg.level.lines_cleared_in_level = 8
    /\ score = arg.score + 400
    /\ level.value = arg.level.value + 1
    /\ level.lines_cleared_in_level = 0

\* C7: on the empty board an I piece spawned at (4, 0) moves down one row
\* per tick up to y = 16, is committed there into column 5, rows 16..19,
\* and the piece live after that tick is at (4, 0).
C7_Drop ==
    [][(/\ pc = "running"
        /\ game_map = EmptyMap
        /\ Len(pieces) = 1
        /\ pieces[1].piece.states[1] = 17476
        /\ pieces[1].piece.current_state = 0
        /\ pieces' # pieces) =>
          IF pieces[1].position.y < 16
          THEN /\ pieces' = <<[piece |-> pieces[1].piece,
                               position |-> [x |-> 4, y |-> pieces[1].position.y + 1]]>>
               /\ game_map' = game_map
          ELSE /\ pieces[1].position.y = 16
               /\ Occupied(game_map') = {<<y, 5>> : y \in 16..19}
               /\ Len(pieces') = 1
               /\ pieces'[1].position = [x |-> 4, y |-> 0]]_vars

C7_Witness ==
    /\ landings = 1
    /\ Occupied(game_map) = {<<y, 5>> : y \in 16..19}
    /\ Len(pieces) = 1
    /\ pieces[1].position = [x |-> 4, y |-> 0]

\* C8: from GameOver the state stays GameOver, and no step moves, commits
\* or spawns a piece.
C8_GameOverTerminal ==
    [][state = "GameOver" =>
        /\ state' = "GameOver"
        /\ pieces' = pieces
        /\ landings' = landings
        /\ Occupied(game_map') \subseteq Occupied(game_map)]_vars

C8_Witness == state = "GameOver" /\ pc = "running" /\ next_state = "None"

\* C9: the board always has 20 rows of 10 cells.
C9_BoardShape ==
    /\ Len(game_map) = 20
    /\ \A y \in 1..Len(game_map) : Len(game_map[y]) = 10

C9_Witness == landings > 0 /\ lines_cleared > 0 /\ score > 0

\* C10: the period set for a level is max(10, 100 - 5 * level) hundredths of
\* a second: 100 at level 0, 50 at 10, 10 at 20 and at 30, never below 10 and
\* never above the period of a lower level.
C10_GravityInterval ==
    (pc = "gravity_done" /\ arg.level_changed) =>
        /\ wrap_period >= 10
        /\ wrap_period >= 100 - 5 * level.value
        /\ wrap_period = 10 \/ wrap_period = 100 - 5 * level.value
        /\ level.value = 0 => wrap_period = 100
        /\ level.value = 10 => wrap_period = 50
        /\ level.value = 20 => wrap_period = 10
        /\ level.value = 30 => wrap_period = 10
        /\ \A lower \in 0..level.value : GravityPeriod(lower) >= wrap_period

C10_Witness ==
    /\ pc = "gravity_done"
    /\ arg.level_changed
    /\ level.value = 30
    /\ wrap_period = 10

--------------------------------------------------------------------------
\* C11: score and level never decrease from one step to the next, a line-clear
\* resolution raises the level by at most one, and the score stays a multiple
\* of 100
C11_Monotone ==
    [][/\ score' >= score
       /\ level'.value >= level.value
       /\ level'.value <= level.value + 1
       /\ score % 100 = 0 /\ score' % 100 = 0]_vars

\* a resolution of two or more rows has raised both the score and the level
C11_Witness ==
    /\ pc = "lines_done"
    /\ lines_cleared >= 2
    /\ score > arg.score
    /\ level.value = arg.level.value + 1

--------------------------------------------------------------------------
\* the bits set among the 16 of a mask
C12_Bits(num) == {j \in 0..15 : (num \div 2^j) % 2 = 1}

\* the filled cells of a 4x4 matrix
C12_Filled(matrix) == {c \in (0..3) \X (0..3) : matrix[c[1]][c[2]] # "No"}

\* C12: each of the four orientation masks of a piece has exactly 4 bits set,
\* and get_block_matrix turns each into a matrix of exactly 4 filled cells
C12_FourCells ==
    \A i \in 1..4 :
        /\ Cardinality(C12_Bits(arg.piece.states[i])) = 4
        /\ Cardinality(C12_Filled(get_block_matrix(arg.piece.states[i]))) = 4

\* can_move has decoded the fourth orientation of a T piece
C12_Witness ==
    /\ pc = "move_done"
    /\ arg.piece.current_state = 3
    /\ CurrentMask(arg.piece) = 19968
    /\ C12_Filled(get_block_matrix(CurrentMask(arg.piece))) = {<<0, 1>>, <<1, 0>>, <<1, 1>>, <<1, 2>>}

--------------------------------------------------------------------------
--------------------------------------------------------------------------
\* C14: after startup a Playing state holds exactly one live piece; the tick
\* that lands a piece writes its footprint to the board, destroys it and
\* leaves exactly one new piece, at the spawn anchor
C14_SinglePiece ==
    [][/\ (pc' # "startup" /\ state' = "Playing") => Len(pieces') = 1
       /\ Lands =>
            /\ Len(pieces) = 1
            /\ Occupied(game_map') =
                 Occupied(game_map)
                   \cup (Footprint(pieces[1].piece, pieces[1].position.x, pieces[1].position.y)
                           \cap Cells)
            /\ Len(pieces') = 1
            /\ pieces'[1].piece \in RandomPieces
            /\ pieces'[1].position = [x |-> 4, y |-> 0]]_vars

\* two pieces have landed and been committed, and the one live piece is the
\* replacement of the second
C14_Witness ==
    /\ pc = "running"
    /\ state = "Playing"
    /\ landings = 2
    /\ Cardinality(Occupied(game_map)) = 8
    /\ Len(pieces) = 1
    /\ pieces[1].position = [x |-> 4, y |-> 0]

--------------------------------------------------------------------------
\* the live piece one row lower stays above the floor and off every occupied cell
C15_CanPlaceBelow ==
    /\ Len(pieces) = 1
    /\ \A c \in Footprint(pieces[1].piece, pieces[1].position.x, pieces[1].position.y + 1) :
         /\ c[1] < NUM_BLOCKS_Y
         /\ c \notin Occupied(game_map)

\* C15: a gravity tick whose test of the position one row lower succeeds
\* changes the y of the live piece to y + 1 and nothing else (among the steps
\* of the running game only a gravity tick changes the live pieces)
C15_MoveOnlyY ==
    [][(pc = "running" /\ C15_CanPlaceBelow /\ pieces' # pieces) =>
          /\ pieces' = <<[piece |-> pieces[1].piece,
                          position |-> [x |-> pieces[1].position.x,
                                        y |-> pieces[1].position.y + 1]]>>
          /\ UNCHANGED <<game_map, score, level, state, next_state, wrap_period, timestep,
                         level_changed, drawn_full_rows, lines_cleared, landings>>]_vars

\* a piece that has fallen some rows above a board that holds a landed piece
C15_Witness ==
    /\ pc = "running"
    /\ landings = 1
    /\ Len(pieces) = 1
    /\ pieces[1].position.y = 3
    /\ Occupied(game_map) # {}

--------------------------------------------------------------------------
\* C16: a line-clear resolution of a board with no full row changes neither
\* the board nor the score, the level or the carried lines, and neither does
\* a resolution that directly follows another
C16_NoOpAndIdempotent ==
    [][(FullRowCount(game_map) = 0 \/ pc = "lines_done") =>
          UNCHANGED <<game_map, score, level>>]_vars

\* the first half alone: a resolution of a board with no full row
C16_NoOpWithoutFullRow ==
    [][FullRowCount(game_map) = 0 => UNCHANGED <<game_map, score, level>>]_vars

--------------------------------------------------------------------------
\* C17: between ticks the period of the gravity-tick scheduler, in
\* microseconds, is the gravity interval of the current level
C17_PeriodFollowsLevel ==
    pc = "running" => timestep = 10000 * MaxOf(10, 100 - 5 * level.value)

--------------------------------------------------------------------------
\* C18: every landing adds exactly 4 occupied cells to the board: the 4 cells
\* of the landed piece lie within the board and none of them was occupied
C18_LandingAddsFour ==
    [][Lands =>
          LET cells == Footprint(pieces[1].piece, pieces[1].position.x, pieces[1].position.y)
          IN /\ cells \subseteq Cells
             /\ cells \cap Occupied(game_map) = {}
             /\ Cardinality(Occupied(game_map')) = Cardinality(Occupied(game_map)) + 4]_vars

--------------------------------------------------------------------------
\* C19: from the empty board the live piece always has x = 4 and rotation
\* index 0, only columns 4..7 of the board are ever occupied, no row is ever
\* full, and score, level and carried lines stay 0
C19_NeverSteered ==
    /\ \A i \in 1..Len(pieces) :
         /\ pieces[i].position.x = 4
         /\ pieces[i].piece.current_state = 0
    /\ \A c \in Occupied(game_map) : c[2] \in 4..7
    /\ FullRowCount(game_map) = 0
    /\ score = 0
    /\ level = [value |-> 0, lines_cleared_in_level |-> 0]

\* frames with their input handling have run, pieces have landed, and one is falling
C19_Witness ==
    /\ pc = "running"
    /\ landings = 1
    /\ Occupied(game_map) # {}
    /\ Len(pieces) = 1
    /\ pieces[1].position.y = 5
    /\ lines_cleared = 0

--------------------------------------------------------------------------
\* C20: once a line-clear resolution has completed, the carried-lines counter
\* is at least 0 and less than 10
C20_CarriedBelowTen ==
    pc = "lines_done" => level.lines_cleared_in_level \in 0..9

\* a resolution that brought 9 carried lines to 12 has reset the counter to 0
C20_Witness ==
    /\ pc = "lines_done"
    /\ arg.level.lines_cleared_in_level = 9
    /\ lines_cleared = 3
    /\ level.lines_cleared_in_level = 0

====
